---- MODULE Spec2Model ----
(***************************************************************************)
(* A model of self_crypto_key: a library with which a Linux ELF executable *)
(* stores a secret inside its own image.  The secret is padded to the      *)
(* capacity of the handle's metadata record, cut into shards, each shard   *)
(* is obfuscated and XORed with a key derived from the hash of .text, and  *)
(* the image is written back through a temp file and a rename.             *)
(*                                                                         *)
(* Scaling.  A shard is SHARD_SIZE bytes (1024 in src/src/metadata.rs:41), *)
(* a digest HASH_LEN bytes (32 for SHA-256) and .key_meta META_SIZE bytes  *)
(* (4096 in src/src/lib.rs:89): the three are bounds of the model.  The    *)
(* eight slot names and the 4..8 shards of a record are the program's.     *)
(* A byte is 0..255 and all byte arithmetic wraps as the code's does.      *)
(*                                                                         *)
(* Specifications.  Spec runs whole calls one after another on two         *)
(* builds, with the code section patched in between.  SpecSteps runs       *)
(* update_bytes one file operation at a time, so that two handles          *)
(* interleave, an operation fails or the process is killed.  SpecCrypto    *)
(* applies the functions of crypto.rs to drawn buffers, keys and seeds     *)
(* under the constants of many builds.  SpecMetadata applies the functions *)
(* of metadata.rs to what the random generator can draw.  SpecOpen opens   *)
(* handles on binaries whose .key_meta is absent, empty, broken or holds a *)
(* record.  SpecBuild runs build.rs on drawn seeds.  SpecProcess follows   *)
(* one process, what /proc/self/exe names for it, and the next invocation. *)
(***************************************************************************)
EXTENDS Integers, Sequences, FiniteSets, TLC

\* ------------------------------------------------------------------ bounds
SHARD_SIZE == 3
HASH_LEN == 2
META_SIZE == 40
\* the number of update_bytes calls one behaviour starts
MaxUpdates == 2
\* the builds whose constants are generated from their number
GENERATED_BUILDS == 384
\* the length of the long buffer: past 256, where `i as u8` wraps
LONG_LEN == 258

\* ------------------------------------------------------- program constants
N_SLOTS == 8
MIN_SHARDS == 4
MAX_SHARDS == 8
VERSION == 1
LEN_PREFIX == 8

Handles == {"h1", "h2"}

\* seeds build.rs is run with
BUILD_SEEDS == 120

\* bytes of a u64
U64_BYTES == 8

\* the low byte of the multiplier of xorshift64*
MULTIPLIER_LOW == 29

VARIABLES
  build,      \* which build of the binary: selects the generated constants
  fs,         \* the directory of the executable: fs[path] is the file at path
  handle,     \* handle[h]: the metadata record cached in KeyStore h
  pc,         \* pc[h]: where h's caller stands in update_bytes
  buffer,     \* buffer[h]: the image h's update_bytes built in memory
  arg,        \* arg[h]: the new_key of h's update_bytes
  fd,         \* fd[h]: the path the inode of h's open temp file is linked at
  last,       \* the call that returned last (or the patch), with what it saw
  updates,    \* update_bytes calls started so far
  start,      \* start[h]: what was on disk when h's update_bytes began
  clean,      \* clean[h]: nobody else touched the two files since then
  committed,  \* the update whose image is at the executable path
  cipher,     \* the call into crypto.rs under study: its inputs and results
  minted,     \* the call into metadata.rs under study: its inputs and results
  constants,  \* what build.rs generated: the seed and the CryptoConstants
  proc_exe    \* where the file the running process executes is linked

vars == <<build, fs, handle, pc, buffer, arg, fd, last, updates, start, clean,
          committed, cipher, minted, constants, proc_exe>>

\* ------------------------------------------------------------------- bytes
Min(a, b) == IF a < b THEN a ELSE b

RECURSIVE XorBits(_, _, _)
XorBits(a, b, n) ==
  IF n = 0 THEN 0
  ELSE ((a + b) % 2) + 2 * XorBits(a \div 2, b \div 2, n - 1)

\* u8 ^ u8, tabulated
XOR_TABLE == [a \in 0..255 |-> [b \in 0..255 |-> XorBits(a, b, 8)]]
Xor(a, b) == XOR_TABLE[a][b]

wrapping_add(a, b) == (a + b) % 256
wrapping_sub(a, b) == (a - b + 256) % 256
wrapping_mul(a, b) == (a * b) % 256
rotate_left(b, n) == ((b * 2^(n % 8)) % 256) + (b \div 2^(8 - (n % 8)))
rotate_right(b, n) == (b \div 2^(n % 8)) + ((b * 2^(8 - (n % 8))) % 256)

\* `i as u8`
AsU8(i) == i % 256

\* u64::to_le_bytes: the least significant byte first
RECURSIVE LeBytes(_, _)
LeBytes(n, k) == IF k = 0 THEN <<>> ELSE <<n % 256>> \o LeBytes(n \div 256, k - 1)

\* u64::to_be_bytes: the most significant byte first
to_be_bytes(n) == [k \in 1..LEN_PREFIX |-> LeBytes(n, LEN_PREFIX)[LEN_PREFIX + 1 - k]]

to_le_bytes(n) == LeBytes(n, LEN_PREFIX)

\* u64::from_le_bytes; a value of 2^30 or more, which is more than any
\* capacity, is given as 2^30
RECURSIVE LeValue(_, _)
LeValue(bytes, k) ==
  IF k > Len(bytes) THEN 0
  ELSE LET higher == LeValue(bytes, k + 1)
       IN IF higher >= 2^22 THEN 2^30 ELSE bytes[k] + 256 * higher

from_le_bytes(bytes) == LeValue(bytes, 1)

\* ------------------------------------------- build-time constants (build.rs)
\* CryptoConstants::generate draws every constant from the build's PRNG; the
\* model carries builds the generator can emit: odd base and multiplier,
\* rotation in 1..7, rounds in 1..3, an S-box that is a permutation.  Builds
\* 1 and 2 are the ones the KeyStore runs on; the builds from 3 on take
\* their constants from their number, so that every odd multiplier, every
\* rotation and every number of rounds occurs.
Builds == {1, 2}
GeneratedBuilds == 3..(2 + GENERATED_BUILDS)

TABLE_A == [b \in 0..255 |-> (b * 91 + 17) % 256]
TABLE_B == [b \in 0..255 |-> (b % 16) * 16 + (b \div 16)]

\* deobfuscate_table[val as usize] = i as u8
InverseTable(T) == [v \in 0..255 |-> CHOOSE i \in 0..255 : T[i] = v]

INVERSE_A == InverseTable(TABLE_A)
INVERSE_B == InverseTable(TABLE_B)

\* a u64 is held as its eight bytes, the least significant first
ByteAt(x, k) == IF k \in 1..U64_BYTES THEN x[k] ELSE 0

\* u64::wrapping_add, byte by byte with the carry
RECURSIVE AddFrom(_, _, _, _)
AddFrom(a, b, k, carry) ==
  IF k > U64_BYTES THEN <<>>
  ELSE <<(a[k] + b[k] + carry) % 256>> \o AddFrom(a, b, k + 1, (a[k] + b[k] + carry) \div 256)

\* x >> n and x << n
RECURSIVE ShrFrom(_, _, _)
ShrFrom(x, n, k) ==
  IF k > U64_BYTES THEN <<>>
  ELSE <<(ByteAt(x, k + (n \div 8)) \div 2^(n % 8))
           + ((ByteAt(x, k + (n \div 8) + 1) * 2^(8 - (n % 8))) % 256)>>
         \o ShrFrom(x, n, k + 1)

RECURSIVE ShlFrom(_, _, _)
ShlFrom(x, n, k) ==
  IF k > U64_BYTES THEN <<>>
  ELSE <<((ByteAt(x, k - (n \div 8)) * 2^(n % 8)) % 256)
           + (ByteAt(x, k - (n \div 8) - 1) \div 2^(8 - (n % 8)))>>
         \o ShlFrom(x, n, k + 1)

RECURSIVE XorFrom(_, _, _)
XorFrom(a, b, k) ==
  IF k > U64_BYTES THEN <<>> ELSE <<Xor(a[k], b[k])>> \o XorFrom(a, b, k + 1)

\* x ^ (x >> n) and x ^ (x << n)
XorShiftRight(x, n) == XorFrom(x, ShrFrom(x, n, 1), 1)
XorShiftLeft(x, n) == XorFrom(x, ShlFrom(x, n, 1), 1)

\* 0x9e3779b97f4a7c15
GOLDEN == <<21, 124, 74, 127, 185, 121, 55, 158>>

\* SimpleRng::new
SimpleRng_new(seed) == AddFrom(seed, GOLDEN, 1, 0)

\* the state next_u64 leaves behind
next_state(state) == XorShiftRight(XorShiftLeft(XorShiftRight(state, 12), 25), 27)

\* (state.wrapping_mul(0x2545f4914f6cdd1d) & 0xff) as u8: the low byte of a
\* product is the product of the low bytes, 0x1d being the multiplier's
next_u8(state) == wrapping_mul(state[1], MULTIPLIER_LOW)

\* n calls of next_u8 from a state on: the bytes returned and the state
\* left, the calls being made half by half
DrawBoth(first, second) == [bytes |-> first.bytes \o second.bytes, state |-> second.state]

RECURSIVE Draw(_, _)
RECURSIVE DrawMore(_, _)
Draw(state, n) ==
  IF n = 1
  THEN DrawBoth([bytes |-> <<>>, state |-> state],
                [bytes |-> <<next_u8(next_state(state))>>, state |-> next_state(state)])
  ELSE DrawMore(Draw(state, n \div 2), n - (n \div 2))

DrawMore(first, n) == DrawBoth(first, Draw(first.state, n))

\* the first n bytes the generator returns from a state on
Stream(state, n) == Draw(state, n).bytes

\* obfuscate_table.swap(i, j) that only stores into position i
SboxSwapOverwrite(table, i, j) == [table EXCEPT ![i] = table[j]]

\* obfuscate_table.swap(i, j)
SboxSwap(table, i, j) == [table EXCEPT ![i] = table[j], ![j] = table[i]]

\* for i in (lo..=hi).rev() { j = next_u8 % (i + 1); swap(i, j) } on the
\* table and the position in the drawn bytes; the steps are made half by
\* half, and no step is made once the drawn bytes are used up (there are as
\* many bytes as steps)
RECURSIVE FisherYates(_, _, _, _)
FisherYates(rng, hi, lo, drawn) ==
  IF rng.at > Len(drawn) \/ hi < lo THEN rng
  ELSE IF hi = lo
  THEN [at |-> rng.at + 1,
        table |-> SboxSwap(rng.table, hi, drawn[rng.at] % (hi + 1))]
  ELSE FisherYates(FisherYates(rng, hi, ((hi + lo) \div 2) + 1, drawn),
                   (hi + lo) \div 2, lo, drawn)

\* deobfuscate_table[val as usize] = i as u8 for i = 0, 1, ...: the last
\* position holding val wins, and a val held nowhere keeps 0
deobfuscate_table_of(table) ==
  [val \in 0..255 |->
     LET at == {i \in 0..255 : table[i] = val}
     IN IF at = {} THEN 0 ELSE CHOOSE i \in at : \A o \in at : o <= i]

\* CryptoConstants::generate(seed)
CryptoConstants_generate(seed) ==
  LET drawn == Stream(SimpleRng_new(seed), 5 + 255 + N_SLOTS)
      obfuscate_table == FisherYates([at |-> 6, table |-> [i \in 0..255 |-> i]], 255, 1, drawn).table
  IN [obfuscate_base |-> IF drawn[1] % 2 = 0 THEN drawn[1] + 1 ELSE drawn[1],
      obfuscate_multiplier |-> IF drawn[2] % 2 = 0 THEN drawn[2] + 1 ELSE drawn[2],
      xor_mask |-> drawn[3],
      rotation_bits |-> (drawn[4] % 7) + 1,
      extra_rounds |-> (drawn[5] % 3) + 1,
      obfuscate_table |-> obfuscate_table,
      deobfuscate_table |-> deobfuscate_table_of(obfuscate_table),
      shard_seed_offsets |-> [k \in 1..N_SLOTS |-> drawn[260 + k]]]

\* seeds the hash of the build's timestamp may be; the last but one makes the
\* generator's state 0, where it stays
SeedChoices64 ==
  {[k \in 1..8 |-> (n * (2 * k + 35) + k * k * n * n) % 256] : n \in 0..BUILD_SEEDS}
    \cup {<<235, 131, 181, 128, 70, 134, 200, 97>>, [k \in 1..8 |-> 255]}

CryptoConstants ==
  [b \in Builds \cup GeneratedBuilds |->
     IF b = 1
     THEN [obfuscate_base |-> 53, obfuscate_multiplier |-> 167, xor_mask |-> 92,
           rotation_bits |-> 3, extra_rounds |-> 2, table |-> "A",
           shard_seed_offsets |-> <<17, 250, 3, 99, 128, 255, 64, 200>>]
     ELSE IF b = 2
     THEN [obfuscate_base |-> 255, obfuscate_multiplier |-> 85, xor_mask |-> 255,
           rotation_bits |-> 7, extra_rounds |-> 3, table |-> "B",
           shard_seed_offsets |-> <<255, 254, 0, 1, 77, 77, 130, 9>>]
     ELSE LET n == b - 3
          IN [obfuscate_base |-> 2 * ((n * 37 + 5) % 128) + 1,
              obfuscate_multiplier |-> 2 * (n % 128) + 1,
              xor_mask |-> (n * 101) % 256,
              rotation_bits |-> (n % 7) + 1,
              extra_rounds |-> (n % 3) + 1,
              table |-> IF (n + (n \div 128)) % 2 = 0 THEN "A" ELSE "B",
              shard_seed_offsets |-> [k \in 1..8 |-> (n * 29 + k * 53) % 256]]]

OBFUSCATE_BASE == CryptoConstants[build].obfuscate_base
OBFUSCATE_MULTIPLIER == CryptoConstants[build].obfuscate_multiplier
XOR_MASK == CryptoConstants[build].xor_mask
ROTATION_BITS == CryptoConstants[build].rotation_bits
EXTRA_ROUNDS == CryptoConstants[build].extra_rounds
SHARD_SEED_OFFSETS == CryptoConstants[build].shard_seed_offsets
OBFUSCATE_TABLE == IF CryptoConstants[build].table = "A" THEN TABLE_A ELSE TABLE_B
DEOBFUSCATE_TABLE == IF CryptoConstants[build].table = "A" THEN INVERSE_A ELSE INVERSE_B

\* ------------------------------------------------------- crypto (crypto.rs)
\* the cipher that leaves the key out
xor_cipher_keyless(data, key) == data

\* b ^ key[i % key.len()]
xor_cipher(data, key) ==
  [k \in 1..Len(data) |-> Xor(data[k], key[((k - 1) % Len(key)) + 1])]

\* the four layers with the seed left out of the additive term
ObfuscateByteSeedless(b, i, seed) ==
  Xor(wrapping_add(wrapping_add(
        wrapping_mul(OBFUSCATE_TABLE[rotate_left(b, ROTATION_BITS)], OBFUSCATE_MULTIPLIER),
        OBFUSCATE_BASE), AsU8(i)),
      XOR_MASK)

\* the four layers applied to the byte at index i
ObfuscateByte(b, i, seed) ==
  Xor(wrapping_add(wrapping_add(wrapping_add(
        wrapping_mul(OBFUSCATE_TABLE[rotate_left(b, ROTATION_BITS)], OBFUSCATE_MULTIPLIER),
        OBFUSCATE_BASE), seed), AsU8(i)),
      XOR_MASK)

\* one extra round: b + (round as u8) * seed + (i as u8)
RECURSIVE ExtraRounds(_, _, _)
ExtraRounds(result, round, seed) ==
  IF round >= EXTRA_ROUNDS THEN result
  ELSE ExtraRounds(
         [k \in 1..Len(result) |->
            wrapping_add(wrapping_add(result[k], wrapping_mul(AsU8(round), seed)),
                         AsU8(k - 1))],
         round + 1, seed)

obfuscate(data, seed) ==
  ExtraRounds([k \in 1..Len(data) |-> ObfuscateByte(data[k], k - 1, seed)], 0, seed)

\* the extended Euclid loop on (256, a)
RECURSIVE ModInverseLoop(_, _, _, _)
ModInverseLoop(t, new_t, r, new_r) ==
  IF new_r = 0 THEN t
  ELSE LET quotient == r \div new_r
       IN ModInverseLoop(new_t, t - quotient * new_t, new_r, r - quotient * new_r)

\* t after `if t < 0 { t += 256 }`
Corrected(t) == IF t < 0 THEN t + 256 ELSE t

\* the loop started with t and new_t exchanged
mod_inverse_exchanged(a) == Corrected(ModInverseLoop(1, 0, 256, a)) % 256

\* `t as u8` keeps the low eight bits
mod_inverse(a) == Corrected(ModInverseLoop(0, 1, 256, a)) % 256

\* the extra rounds undone, last round first
RECURSIVE UndoRounds(_, _, _)
UndoRounds(result, round, seed) ==
  IF round < 0 THEN result
  ELSE UndoRounds(
         [k \in 1..Len(result) |->
            wrapping_sub(wrapping_sub(result[k], AsU8(k - 1)),
                         wrapping_mul(AsU8(round), seed))],
         round - 1, seed)

\* the layers undone with the XOR mask taken off after the additive terms
DeobfuscateByteMaskLate(b, i, seed, inv_multiplier) ==
  rotate_right(
    DEOBFUSCATE_TABLE[
      wrapping_mul(
        Xor(wrapping_sub(wrapping_sub(wrapping_sub(b, AsU8(i)), seed), OBFUSCATE_BASE),
            XOR_MASK),
        inv_multiplier)],
    ROTATION_BITS)

\* the four layers undone for the byte at index i
DeobfuscateByte(b, i, seed, inv_multiplier) ==
  rotate_right(
    DEOBFUSCATE_TABLE[
      wrapping_mul(
        wrapping_sub(wrapping_sub(wrapping_sub(Xor(b, XOR_MASK), AsU8(i)), seed),
                     OBFUSCATE_BASE),
        inv_multiplier)],
    ROTATION_BITS)

deobfuscate(data, seed) ==
  LET result == UndoRounds(data, EXTRA_ROUNDS - 1, seed)
      inv_multiplier == mod_inverse(OBFUSCATE_MULTIPLIER)
  IN [k \in 1..Len(result) |-> DeobfuscateByte(result[k], k - 1, seed, inv_multiplier)]

encrypt_shard(data, derive_key, seed) == xor_cipher(obfuscate(data, seed), derive_key)

\* the two steps of decrypt_shard in the order of encrypt_shard
decrypt_shard_swapped(encrypted_data, derive_key, seed) ==
  xor_cipher(deobfuscate(encrypted_data, seed), derive_key)

decrypt_shard(encrypted_data, derive_key, seed) ==
  deobfuscate(xor_cipher(encrypted_data, derive_key), seed)

\* SHA-256 is not computed: it is a function from the section's bytes to
\* HASH_LEN digest bytes, one-to-one on the code sections of the model.  Two
\* different sections may share leading digest bytes, as two SHA-256 digests
\* may.
Sha256(data) ==
  [i \in 1..HASH_LEN |->
     IF i = HASH_LEN THEN (data[1] % 16) * 16 + 11
     ELSE ((data[1] \div 16) * 29 + i) % 256]


\* ------------------------------------------------------ errors (error.rs)
\* a Result is a record whose status is "Ok" or the kind of the Error
ErrorKinds == {"Io", "Parse", "Crypto", "Config", "SectionNotFound", "SizeMismatch"}

\* ------------------------------------------------- ELF images (object crate)
\* An image is the parsed view of a file's bytes: whether object::File::parse
\* accepts it, and the bytes of each named section.  File offsets are not
\* modelled: two sections never overlap.
METADATA_SECTION == ".key_meta"
DERIVE_SECTION == ".text"

SHARD_NAMES ==
  <<".key_data_00", ".key_data_01", ".key_data_02", ".key_data_03",
    ".key_data_04", ".key_data_05", ".key_data_06", ".key_data_07">>

Zeros(n) == [k \in 1..n |-> 0]

\* what fs::write leaves between open(O_TRUNC) and write_all: no bytes
EmptyFile == [elf |-> FALSE, sec |-> [n \in {} |-> <<>>]]

\* the image init_key_storage!() links: every reserved section zeroed
FreshImage(text) ==
  [elf |-> TRUE,
   sec |-> [n \in {DERIVE_SECTION, METADATA_SECTION} \cup {SHARD_NAMES[k] : k \in 1..N_SLOTS} |->
              IF n = DERIVE_SECTION THEN text
              ELSE IF n = METADATA_SECTION THEN Zeros(META_SIZE)
              ELSE Zeros(SHARD_SIZE)]]

\* a host binary that reserves the slots badly: one slot absent, one short
BrokenImage(text) ==
  [elf |-> TRUE,
   sec |-> [n \in {DERIVE_SECTION, METADATA_SECTION}
                   \cup {SHARD_NAMES[k] : k \in (1..N_SLOTS) \ {6}} |->
              IF n = DERIVE_SECTION THEN text
              ELSE IF n = METADATA_SECTION THEN Zeros(META_SIZE)
              ELSE IF n = SHARD_NAMES[7] THEN Zeros(SHARD_SIZE - 1)
              ELSE Zeros(SHARD_SIZE)]]

\* the code sections of the model: the digest of the second differs from the
\* digest of the first in the last byte only, the digest of the third in the
\* others
ORIGINAL_TEXT == <<144>>
PatchDraws == {<<145>>, <<16>>}

\* KeyStore::find_section: Ok((offset, size)) or the error
find_section(binary_data, section_name) ==
  IF ~binary_data.elf THEN [status |-> "Parse", size |-> 0]
  ELSE IF section_name \notin DOMAIN binary_data.sec
       THEN [status |-> "SectionNotFound", size |-> 0]
       ELSE [status |-> "Ok", size |-> Len(binary_data.sec[section_name])]

\* the copy that lands one byte further on
SpliceOneOff(binary_data, section_name, at, bytes) ==
  [binary_data EXCEPT !.sec[section_name] =
     [k \in 1..Len(@) |->
        IF k > at + 1 /\ k <= at + 1 + Len(bytes) THEN bytes[k - at - 1] ELSE @[k]]]

\* binary_data[offset + at .. offset + at + len(bytes)].copy_from_slice(bytes)
Splice(binary_data, section_name, at, bytes) ==
  [binary_data EXCEPT !.sec[section_name] =
     [k \in 1..Len(@) |->
        IF k > at /\ k <= at + Len(bytes) THEN bytes[k - at] ELSE @[k]]]

derive_key_from_section(binary_data, section_name, key_len) ==
  IF ~binary_data.elf THEN [status |-> "Parse", key |-> <<>>]
  ELSE IF section_name \notin DOMAIN binary_data.sec
       THEN [status |-> "SectionNotFound", key |-> <<>>]
       ELSE [status |-> "Ok",
             key |-> SubSeq(Sha256(binary_data.sec[section_name]), 1,
                            Min(key_len, HASH_LEN))]

\* --------------------------------------------------- metadata (metadata.rs)
NoMetadata == [num_shards |-> 0, shard_sizes |-> <<>>, shard_names |-> <<>>, version |-> 0]

\* generate with every shard one byte short of SHARD_SIZE
generate_short(num_shards, available_indices) ==
  [num_shards |-> num_shards,
   shard_sizes |-> [k \in 1..num_shards |-> SHARD_SIZE - 1],
   shard_names |-> [k \in 1..num_shards |-> SHARD_NAMES[available_indices[k] + 1]],
   version |-> VERSION]

\* KeyMetadata::generate, given what the generator drew: the shard count and
\* the shuffled indices 0..7
generate(num_shards, available_indices) ==
  [num_shards |-> num_shards,
   shard_sizes |-> [k \in 1..num_shards |-> SHARD_SIZE],
   shard_names |-> [k \in 1..num_shards |-> SHARD_NAMES[available_indices[k] + 1]],
   version |-> VERSION]

\* rng.gen_range(4..=8)
GenRange == MIN_SHARDS..MAX_SHARDS

\* a swap that copies one way only
SwapOverwrite(seq, i, j) == [seq EXCEPT ![i + 1] = seq[j + 1]]

\* slice.swap(i, j), positions from 0
Swap(seq, i, j) == [seq EXCEPT ![i + 1] = seq[j + 1], ![j + 1] = seq[i + 1]]

\* available_indices.shuffle(&mut rng): for i from len - 1 down to 1, swap
\* position i with a position the generator picks in 0..=i (picks[i])
RECURSIVE ShuffleFrom(_, _, _)
ShuffleFrom(seq, i, picks) ==
  IF i < 1 THEN seq ELSE ShuffleFrom(Swap(seq, i, picks[i]), i - 1, picks)

\* (0..8).collect(), shuffled
shuffle(picks) == ShuffleFrom([k \in 1..N_SLOTS |-> k - 1], N_SLOTS - 1, picks)

\* what the generator picks during one shuffle: for each i the first, the
\* middle and the last position of 0..=i
PickChoices ==
  {<<p1, p2, p3, p4, p5, p6, p7>> :
     p1 \in {0, 1}, p2 \in {0, 1, 2}, p3 \in {0, 1, 3}, p4 \in {0, 2, 4},
     p5 \in {0, 2, 5}, p6 \in {0, 3, 6}, p7 \in {0, 3, 7}}

\* the draws the model takes: a shard count with the shuffled indices
Draws ==
  {d \in {<<4, <<0, 1, 2, 3, 4, 5, 6, 7>>>>,
          <<5, <<6, 3, 0, 5, 2, 7, 4, 1>>>>,
          <<8, <<0, 1, 2, 3, 4, 5, 6, 7>>>>} : d[1] \in GenRange}

RECURSIVE SumSeq(_, _)
SumSeq(seq, k) == IF k > Len(seq) THEN 0 ELSE seq[k] + SumSeq(seq, k + 1)

total_capacity(m) == SumSeq(m.shard_sizes, 1)

validate(m) ==
  IF m.num_shards = 0 THEN "Config"
  ELSE IF m.num_shards > MAX_SHARDS THEN "Config"
  ELSE IF Len(m.shard_sizes) # m.num_shards THEN "Config"
  ELSE IF Len(m.shard_names) # m.num_shards THEN "Config"
  ELSE "Ok"

\* JSON is modelled token by token: a brace, a bracket, a number or a string
\* is one token of the byte sequence, a zero byte is 0.
LBRACE == 123
RBRACE == 125
LBRACKET == 91
RBRACKET == 93
\* the token of the string SHARD_NAMES[k]
NameToken(name) == 47 + (CHOOSE k \in 1..N_SLOTS : SHARD_NAMES[k] = name)
IsNameToken(t) == t \in 48..(47 + N_SLOTS)

\* serde_json::to_vec(self)
to_bytes(m) ==
  <<LBRACE, m.num_shards, LBRACKET>> \o m.shard_sizes \o <<RBRACKET, LBRACKET>>
    \o [k \in 1..Len(m.shard_names) |-> NameToken(m.shard_names[k])]
    \o <<RBRACKET, m.version, RBRACE>>

\* position (from 1) of the first / last v in data, 0 when there is none
Position(data, v) ==
  LET at == {k \in 1..Len(data) : data[k] = v}
  IN IF at = {} THEN 0 ELSE CHOOSE k \in at : \A j \in at : k <= j
\* the search for the last v that stops at the first
RPositionFirst(data, v) == Position(data, v)

RPosition(data, v) ==
  LET at == {k \in 1..Len(data) : data[k] = v}
  IN IF at = {} THEN 0 ELSE CHOOSE k \in at : \A j \in at : k >= j

\* serde_json::from_slice::<KeyMetadata>: the four fields in their order
from_slice(json) ==
  LET n == Len(json)
      close1 == IF n >= 4 THEN 3 + Position(SubSeq(json, 4, n), RBRACKET) ELSE 0
      close2 == IF close1 > 3 /\ n >= close1 + 2
                THEN close1 + 1 + Position(SubSeq(json, close1 + 2, n), RBRACKET)
                ELSE 0
      wellFormed ==
        /\ n >= 8
        /\ json[1] = LBRACE /\ json[3] = LBRACKET
        /\ close1 > 3
        /\ json[close1 + 1] = LBRACKET
        /\ close2 > close1 + 1
        /\ n = close2 + 2
        /\ json[n] = RBRACE
        /\ \A k \in (close1 + 2)..(close2 - 1) : IsNameToken(json[k])
  IN IF ~wellFormed THEN [status |-> "Parse", value |-> NoMetadata]
     ELSE [status |-> "Ok",
           value |-> [num_shards |-> json[2],
                      shard_sizes |-> SubSeq(json, 4, close1 - 1),
                      shard_names |-> [k \in 1..(close2 - close1 - 2) |->
                                         SHARD_NAMES[json[close1 + 1 + k] - 47]],
                      version |-> json[n - 1]]]

\* KeyMetadata::from_bytes: the JSON between the first '{' and the last '}'
from_bytes(data) ==
  LET json_start == Position(data, LBRACE)
      json_end == RPosition(data, RBRACE)
  IN IF json_start = 0 THEN [status |-> "Parse", value |-> NoMetadata]
     ELSE IF json_end = 0 THEN [status |-> "Parse", value |-> NoMetadata]
     ELSE IF json_start > json_end THEN [status |-> "Parse", value |-> NoMetadata]
     ELSE from_slice(SubSeq(data, json_start, json_end))


\* ------------------------------------------------- KeyStore (key_store.rs)
\* KeyStore::read_metadata
read_metadata(binary_data) ==
  LET found == find_section(binary_data, METADATA_SECTION)
  IN IF found.status # "Ok" THEN [status |-> found.status, value |-> NoMetadata]
     ELSE IF found.size < LEN_PREFIX THEN [status |-> "Config", value |-> NoMetadata]
     ELSE from_bytes(SubSeq(binary_data.sec[METADATA_SECTION], LEN_PREFIX + 1, found.size))

\* KeyStore::write_metadata_to_binary
write_metadata_to_binary(metadata, binary_data) ==
  LET found == find_section(binary_data, METADATA_SECTION)
      json_bytes == to_bytes(metadata)
  IN IF found.status # "Ok" THEN [status |-> found.status, image |-> binary_data]
     ELSE IF Len(json_bytes) + LEN_PREFIX > found.size
          THEN [status |-> "Config", image |-> binary_data]
          ELSE [status |-> "Ok",
                image |-> Splice(binary_data, METADATA_SECTION, LEN_PREFIX, json_bytes)]

\* the padding that is not zero
ResizeWithOnes(key, n) == [k \in 1..n |-> IF k <= Len(key) THEN key[k] ELSE 1]

\* padded_key.resize(total_capacity, 0)
Resize(key, n) == [k \in 1..n |-> IF k <= Len(key) THEN key[k] ELSE 0]

\* the seed of shard i: SHARD_SEED_OFFSETS[i % 8].wrapping_add(i as u8)
ShardSeed(i) == wrapping_add(SHARD_SEED_OFFSETS[(i % Len(SHARD_SEED_OFFSETS)) + 1], AsU8(i))

\* new_key.len() > total_capacity + 1: the check one byte too generous
CapacityExceededByTwo(new_key, total) == Len(new_key) > total + 1

\* new_key.len() > total_capacity
CapacityExceeded(new_key, total) == Len(new_key) > total

\* the shard loop of update_bytes from shard i on (i from 0)
RECURSIVE EncryptShards(_, _, _, _, _)
EncryptShards(metadata, binary_data, padded_key, i, offset_in_key) ==
  IF i >= Len(metadata.shard_sizes) THEN [status |-> "Ok", image |-> binary_data]
  ELSE
    LET shard_size == metadata.shard_sizes[i + 1]
        shard_data == SubSeq(padded_key, offset_in_key + 1, offset_in_key + shard_size)
        section_name == metadata.shard_names[i + 1]
        found == find_section(binary_data, section_name)
        derived == derive_key_from_section(binary_data, DERIVE_SECTION, shard_size)
    IN IF found.status # "Ok" THEN [status |-> found.status, image |-> binary_data]
       ELSE IF found.size < shard_size THEN [status |-> "SizeMismatch", image |-> binary_data]
       ELSE IF derived.status # "Ok" THEN [status |-> derived.status, image |-> binary_data]
       ELSE EncryptShards(
              metadata,
              Splice(binary_data, section_name, 0,
                     encrypt_shard(shard_data, derived.key, ShardSeed(i))),
              padded_key, i + 1, offset_in_key + shard_size)

\* update_bytes that writes its metadata record on every call
UpdateImageReseed(metadata, binary_data, new_key) ==
  LET init == write_metadata_to_binary(metadata, binary_data)
      total == total_capacity(metadata)
      shards == EncryptShards(metadata, init.image, Resize(new_key, total), 0, 0)
      found == find_section(shards.image, METADATA_SECTION)
  IN IF init.status # "Ok" THEN [status |-> init.status, image |-> binary_data]
     ELSE IF CapacityExceeded(new_key, total) THEN [status |-> "Config", image |-> binary_data]
     ELSE IF shards.status # "Ok" THEN [status |-> shards.status, image |-> binary_data]
     ELSE IF found.status # "Ok" THEN [status |-> found.status, image |-> binary_data]
     ELSE [status |-> "Ok",
           image |-> Splice(shards.image, METADATA_SECTION, 0, to_le_bytes(Len(new_key)))]

\* update_bytes from the image it read up to the image it hands to atomic_write
UpdateImage(metadata, binary_data, new_key) ==
  LET needs_metadata_init == read_metadata(binary_data).status # "Ok"
      init == IF needs_metadata_init
              THEN write_metadata_to_binary(metadata, binary_data)
              ELSE [status |-> "Ok", image |-> binary_data]
      total == total_capacity(metadata)
      shards == EncryptShards(metadata, init.image, Resize(new_key, total), 0, 0)
      found == find_section(shards.image, METADATA_SECTION)
  IN IF init.status # "Ok" THEN [status |-> init.status, image |-> binary_data]
     ELSE IF CapacityExceeded(new_key, total) THEN [status |-> "Config", image |-> binary_data]
     ELSE IF shards.status # "Ok" THEN [status |-> shards.status, image |-> binary_data]
     ELSE IF found.status # "Ok" THEN [status |-> found.status, image |-> binary_data]
     ELSE [status |-> "Ok",
           image |-> Splice(shards.image, METADATA_SECTION, 0, to_le_bytes(Len(new_key)))]

\* the shard loop of read_bytes from shard i on
RECURSIVE DecryptShards(_, _, _, _, _)
DecryptShards(metadata, binary_data, i, bytes_needed, decrypted_bytes) ==
  IF i >= Len(metadata.shard_sizes) \/ bytes_needed = 0
  THEN [status |-> "Ok", data |-> decrypted_bytes]
  ELSE
    LET shard_size == metadata.shard_sizes[i + 1]
        section_name == metadata.shard_names[i + 1]
        found == find_section(binary_data, section_name)
        derived == derive_key_from_section(binary_data, DERIVE_SECTION, shard_size)
        decrypted == decrypt_shard(SubSeq(binary_data.sec[section_name], 1, shard_size),
                                   derived.key, ShardSeed(i))
        bytes_to_take == Min(bytes_needed, Len(decrypted))
    IN IF found.status # "Ok" THEN [status |-> found.status, data |-> <<>>]
       ELSE IF found.size < shard_size THEN [status |-> "SizeMismatch", data |-> <<>>]
       ELSE IF derived.status # "Ok" THEN [status |-> derived.status, data |-> <<>>]
       ELSE DecryptShards(metadata, binary_data, i + 1, bytes_needed - bytes_to_take,
                          decrypted_bytes \o SubSeq(decrypted, 1, bytes_to_take))

\* read_bytes without the check of the stored length against the capacity
ReadImageUnchecked(metadata, binary_data) ==
  LET found == find_section(binary_data, METADATA_SECTION)
      actual_key_len == from_le_bytes(SubSeq(binary_data.sec[METADATA_SECTION], 1, LEN_PREFIX))
  IN IF found.status # "Ok" THEN [status |-> found.status, data |-> <<>>]
     ELSE IF actual_key_len = 0 THEN [status |-> "Ok", data |-> <<>>]
     ELSE DecryptShards(metadata, binary_data, 0, actual_key_len, <<>>)

\* read_bytes on the image it read
ReadImage(metadata, binary_data) ==
  LET found == find_section(binary_data, METADATA_SECTION)
      actual_key_len == from_le_bytes(SubSeq(binary_data.sec[METADATA_SECTION], 1, LEN_PREFIX))
  IN IF found.status # "Ok" THEN [status |-> found.status, data |-> <<>>]
     ELSE IF actual_key_len = 0 THEN [status |-> "Ok", data |-> <<>>]
     ELSE IF actual_key_len > total_capacity(metadata) THEN [status |-> "Config", data |-> <<>>]
     ELSE DecryptShards(metadata, binary_data, 0, actual_key_len, <<>>)

\* KeyStore::new that passes the error of read_metadata on
NewHandleStrict(binary_data, num_shards, available_indices) ==
  LET persisted == read_metadata(binary_data)
  IN [status |-> IF persisted.status = "Ok" THEN validate(persisted.value)
                 ELSE persisted.status,
      metadata |-> persisted.value]

\* KeyStore::new that generates a record also when the persisted one fails
\* validate()
NewHandleLenient(binary_data, num_shards, available_indices) ==
  LET persisted == read_metadata(binary_data)
      metadata == IF persisted.status = "Ok" /\ validate(persisted.value) = "Ok"
                  THEN persisted.value
                  ELSE generate(num_shards, available_indices)
  IN [status |-> validate(metadata), metadata |-> metadata]

\* KeyStore::new on the image it read, given what generate() would draw
NewHandle(binary_data, num_shards, available_indices) ==
  LET persisted == read_metadata(binary_data)
      metadata == IF persisted.status = "Ok" THEN persisted.value
                  ELSE generate(num_shards, available_indices)
  IN [status |-> validate(metadata), metadata |-> metadata]

\* ------------------------------------------------------- the file system
\* fs maps a path to the file linked there; fd[h] is the path the file that
\* h's fs::write holds open is linked at.
EXE_PATH == "exe"

\* the temporary path that is the path itself
with_no_extension(path) == path

\* path.with_extension("tmp"), for an executable whose extension is not tmp
with_extension(path) == "tmp"

Absent == [exists |-> FALSE, data |-> EmptyFile, perm |-> "none"]
EXE_MODE == "rwxr-xr-x"
CREATE_MODE == "rw-r--r--"

\* File::create that opens the executable whatever path it is given
OpenTruncateTarget(files, path) ==
  [files EXCEPT ![EXE_PATH] = [exists |-> TRUE, data |-> EmptyFile, perm |-> @.perm]]

\* File::create of fs::write: O_CREAT | O_TRUNC, an existing file keeps its mode
OpenTruncate(files, path) ==
  [files EXCEPT ![path] = [exists |-> TRUE, data |-> EmptyFile,
                           perm |-> IF @.exists THEN @.perm ELSE CREATE_MODE]]

\* write_all of fs::write on the file linked at path ("unlinked": at no path)
WriteAll(files, path, data) ==
  IF path \in DOMAIN files THEN [files EXCEPT ![path].data = data] ELSE files

\* the permission copy left out
SetPermissionsSkipped(files, path, from) == files

\* fs::set_permissions(path, fs::metadata(from).permissions())
SetPermissions(files, path, from) ==
  [files EXCEPT ![path].perm = files[from].perm]

\* fs::rename(from, to)
RenameFile(files, from, to) ==
  IF from = to THEN files
  ELSE [files EXCEPT ![to] = files[from], ![from] = Absent]

\* what fs::rename(from, to) does to the path an open file is linked at
Relink(link, from, to) ==
  IF from = to THEN link
  ELSE IF link = from THEN to
  ELSE IF link = to THEN "unlinked"
  ELSE link

\* atomic_write when every file operation succeeds and nothing runs between
\* them
atomic_write(files, path, data) ==
  LET temp_path == with_extension(path)
      created == OpenTruncate(files, temp_path)
      written == WriteAll(created, temp_path, data)
      permitted == SetPermissions(written, temp_path, path)
  IN RenameFile(permitted, temp_path, path)

\* ------------------------------------------------------------- the inputs
\* the secret of len bytes that starts after base
Secret(len, base) == [k \in 1..len |-> (base + k) % 256]

\* the secrets update_bytes is called with: empty, one byte, the capacity,
\* one more than the capacity
KeyDraws(capacity) == {Secret(len, 254) : len \in {0, 1, capacity, capacity + 1}}

\* -------------------------------------------------------------- the state
Paths == {EXE_PATH, with_extension(EXE_PATH)}

\* where a caller stands inside atomic_write
InFlight == {"computed", "tmp_open", "tmp_written", "perms_copied", "renamed"}

NoCommit == [by |-> "none", key |-> <<>>, derive |-> <<>>, on_fresh |-> FALSE]

NoCall ==
  [handle |-> "none", op |-> "none", status |-> "Ok", data |-> <<>>,
   new_key |-> <<>>, untouched |-> TRUE, fresh |-> FALSE, clean |-> TRUE,
   raced |-> FALSE, old |-> <<>>]

\* .key_meta holds no metadata record
Uninitialized(image) == read_metadata(image).status # "Ok"

\* the image the linker produced: every reserved section there and all zero
IsFresh(image) ==
  /\ image.elf
  /\ DOMAIN image.sec = DOMAIN FreshImage(ORIGINAL_TEXT).sec
  /\ \A n \in DOMAIN image.sec \ {DERIVE_SECTION} :
       image.sec[n] = FreshImage(ORIGINAL_TEXT).sec[n]

\* the key the code section of the image yields
KeyNow(image) == derive_key_from_section(image, DERIVE_SECTION, SHARD_SIZE).key

\* the bytes of .key_meta after the length prefix
JsonBody(image) ==
  SubSeq(image.sec[METADATA_SECTION], LEN_PREFIX + 1, Len(image.sec[METADATA_SECTION]))

\* no call into crypto.rs made yet
NoCipher ==
  [op |-> "none", data |-> <<>>, key |-> <<>>, seed |-> 0, out |-> <<>>,
   back |-> <<>>, seed2 |-> 0, out2 |-> <<>>, t |-> 0]

\* build.rs not run yet
NoConstants == [op |-> "none", seed |-> <<>>, value |-> <<>>]

\* no call into metadata.rs made yet
NoRecord ==
  [op |-> "none", picks |-> <<>>, record |-> NoMetadata, bytes |-> <<>>,
   image |-> EmptyFile, parsed |-> [status |-> "Ok", value |-> NoMetadata]]

InitWith(builds, images) ==
  /\ build \in builds
  /\ \E image \in images :
       fs = [p \in Paths |-> IF p = EXE_PATH
                             THEN [exists |-> TRUE, data |-> image, perm |-> EXE_MODE]
                             ELSE Absent]
  /\ handle = [h \in Handles |-> NoMetadata]
  /\ pc = [h \in Handles |-> "idle"]
  /\ buffer = [h \in Handles |-> EmptyFile]
  /\ arg = [h \in Handles |-> <<>>]
  /\ fd = [h \in Handles |-> "none"]
  /\ last = NoCall
  /\ updates = 0
  /\ start = [h \in Handles |-> EmptyFile]
  /\ clean = [h \in Handles |-> TRUE]
  /\ committed = NoCommit
  /\ cipher = NoCipher
  /\ minted = NoRecord
  /\ constants = NoConstants
  /\ proc_exe = EXE_PATH

Init == InitWith(Builds, {FreshImage(ORIGINAL_TEXT)})

\* h changed a file: every other caller inside update_bytes is disturbed
Disturb(h) ==
  [q \in Handles |-> IF q = h \/ pc[q] \notin InFlight \cup {"killed"}
                     THEN clean[q] ELSE FALSE]

\* --------------------------------------------------------- the operations
\* File::open(path) finds a file
CanOpen(path) == path \in Paths /\ fs[path].exists

\* KeyStore::new, exe_path being what env::current_exe() returned
OpenAt(h, exe_path) ==
  /\ pc[h] = "idle"
  /\ handle[h] = NoMetadata
  /\ h = "h1" \/ handle["h1"] # NoMetadata
  /\ \E d \in Draws :
       LET made == IF CanOpen(exe_path)
                   THEN NewHandle(fs[exe_path].data, d[1], d[2])
                   ELSE [status |-> "Io", metadata |-> NoMetadata]
       IN /\ handle' = IF made.status = "Ok"
                       THEN [handle EXCEPT ![h] = made.metadata]
                       ELSE handle
          /\ last' = [NoCall EXCEPT !.handle = h, !.op = "open",
                                    !.status = made.status,
                                    !.fresh = IsFresh(fs[EXE_PATH].data)]
  /\ UNCHANGED <<proc_exe, constants, minted, cipher, build, fs, pc, buffer, arg, fd, updates, start, clean, committed>>

\* KeyStore::new as the first call of a process just started from the file at
\* the executable path
Open(h) == OpenAt(h, EXE_PATH)

\* the update_bytes calls that are inside atomic_write
Writers == {w \in Handles : pc[w] \in InFlight}

\* KeyStore::read_bytes
ReadBytes(h) ==
  /\ pc[h] = "idle"
  /\ handle[h] # NoMetadata
  /\ UNCHANGED <<proc_exe, constants, minted, cipher, build, fs, handle, pc, buffer, arg, fd, updates, start, clean, committed>>
  /\ LET result == ReadImage(handle[h], fs[EXE_PATH].data)
         before == IF Writers = {} THEN [status |-> "Ok", data |-> <<>>]
                   ELSE ReadImage(handle[h], start[CHOOSE w \in Writers : TRUE])
         raced == /\ Cardinality(Writers) = 1
                  /\ \A w \in Writers :
                       /\ clean[w]
                       /\ handle[w] = handle[h]
                       /\ before.status = "Ok"
     IN last' = [NoCall EXCEPT !.handle = h, !.op = "read",
                               !.status = result.status,
                               !.data = result.data,
                               !.untouched = (fs'[EXE_PATH] = fs[EXE_PATH]),
                               !.fresh = IsFresh(fs[EXE_PATH].data),
                               !.raced = raced,
                               !.old = IF raced THEN before.data ELSE <<>>,
                               !.new_key = IF raced
                                           THEN arg[CHOOSE w \in Writers : TRUE]
                                           ELSE <<>>]

\* update_bytes when no call runs beside it and the file system does not
\* fail: the image, then atomic_write
UpdateWhole(h) ==
  /\ pc[h] = "idle"
  /\ handle[h] # NoMetadata
  /\ updates < MaxUpdates
  /\ updates' = updates + 1
  /\ \E new_key \in KeyDraws(total_capacity(handle[h])) :
     LET binary_data == fs[EXE_PATH].data
         built == UpdateImage(handle[h], binary_data, new_key)
     IN /\ fs' = IF built.status # "Ok" THEN fs
                 ELSE atomic_write(fs, EXE_PATH, built.image)
        /\ committed' = IF built.status = "Ok"
                        THEN [by |-> h, key |-> new_key,
                              derive |-> KeyNow(built.image),
                              on_fresh |-> IsFresh(binary_data)]
                        ELSE committed
        /\ last' = [NoCall EXCEPT !.handle = h, !.op = "update",
                                  !.status = built.status,
                                  !.new_key = new_key,
                                  !.untouched = (fs'[EXE_PATH].data = binary_data),
                                  !.fresh = Uninitialized(binary_data),
                                  !.old = ReadImage(handle[h], binary_data).data]
  /\ UNCHANGED <<constants, minted, cipher, build, handle, pc, buffer, arg, fd, start, clean>>

\* update_bytes of a handle whose process is not followed after the call
UpdateCall(h) == UpdateWhole(h) /\ UNCHANGED proc_exe

\* the code section of the file on disk is patched after a secret was stored
Tamper ==
  /\ fs[EXE_PATH].data.elf
  /\ DERIVE_SECTION \in DOMAIN fs[EXE_PATH].data.sec
  /\ fs[EXE_PATH].data.sec[DERIVE_SECTION] = ORIGINAL_TEXT
  /\ committed.by # "none"
  /\ \E text \in PatchDraws :
       fs' = [fs EXCEPT ![EXE_PATH].data.sec[DERIVE_SECTION] = text]
  /\ last' = [NoCall EXCEPT !.op = "tamper"]
  /\ UNCHANGED <<proc_exe, constants, minted, cipher, build, handle, pc, buffer, arg, fd, updates, start, clean, committed>>

Next ==
  \/ \E h \in Handles : Open(h)
  \/ \E h \in Handles : ReadBytes(h)
  \/ \E h \in Handles : UpdateCall(h)
  \/ Tamper

Spec == Init /\ [][Next]_vars

\* ---------------------------------------- update_bytes one step at a time
\* h's update_bytes ends with an error
Fail(h, status) ==
  /\ pc' = [pc EXCEPT ![h] = "idle"]
  /\ fd' = [fd EXCEPT ![h] = "none"]
  /\ last' = [NoCall EXCEPT !.handle = h, !.op = "update",
                            !.status = status,
                            !.new_key = arg[h],
                            !.untouched = (fs[EXE_PATH].data = start[h]),
                            !.fresh = Uninitialized(start[h]),
                            !.clean = clean[h]]
  /\ buffer' = [buffer EXCEPT ![h] = EmptyFile]
  /\ arg' = [arg EXCEPT ![h] = <<>>]
  /\ start' = [start EXCEPT ![h] = EmptyFile]

\* update_bytes from fs::read to the call of atomic_write
UpdateBytes(h) ==
  /\ pc[h] = "idle"
  /\ handle[h] # NoMetadata
  /\ updates < MaxUpdates
  /\ updates' = updates + 1
  /\ UNCHANGED <<proc_exe, constants, minted, cipher, build, fs, handle, fd, committed>>
  /\ \E new_key \in KeyDraws(total_capacity(handle[h])) \ {<<>>} :
       LET binary_data == fs[EXE_PATH].data
           built == UpdateImage(handle[h], binary_data, new_key)
       IN IF built.status # "Ok"
          THEN /\ last' = [NoCall EXCEPT !.handle = h, !.op = "update",
                                         !.status = built.status,
                                         !.new_key = new_key,
                                         !.untouched = (fs'[EXE_PATH].data = binary_data),
                                         !.fresh = Uninitialized(binary_data)]
               /\ UNCHANGED <<pc, buffer, arg, start, clean>>
          ELSE /\ pc' = [pc EXCEPT ![h] = "computed"]
               /\ buffer' = [buffer EXCEPT ![h] = built.image]
               /\ arg' = [arg EXCEPT ![h] = new_key]
               /\ start' = [start EXCEPT ![h] = binary_data]
               /\ clean' = [clean EXCEPT ![h] = TRUE]
               /\ UNCHANGED last

\* fs::write(path, data): File::create on the executable itself
TmpOpenInPlace(h) ==
  /\ pc[h] = "computed"
  /\ fs' = OpenTruncate(fs, EXE_PATH)
  /\ fd' = [fd EXCEPT ![h] = EXE_PATH]
  /\ pc' = [pc EXCEPT ![h] = "tmp_open"]
  /\ clean' = Disturb(h)
  /\ UNCHANGED <<proc_exe, constants, minted, cipher, build, handle, buffer, arg, last, updates, start, committed>>

\* fs::write(&temp_path, data): File::create
TmpOpen(h) ==
  /\ pc[h] = "computed"
  /\ fs' = OpenTruncate(fs, with_extension(EXE_PATH))
  /\ fd' = [fd EXCEPT ![h] = with_extension(EXE_PATH)]
  /\ pc' = [pc EXCEPT ![h] = "tmp_open"]
  /\ clean' = Disturb(h)
  /\ UNCHANGED <<proc_exe, constants, minted, cipher, build, handle, buffer, arg, last, updates, start, committed>>

\* fs::write(&temp_path, data): write_all, then the file is closed
TmpWrite(h) ==
  /\ pc[h] = "tmp_open"
  /\ fs' = WriteAll(fs, fd[h], buffer[h])
  /\ fd' = [fd EXCEPT ![h] = "none"]
  /\ pc' = [pc EXCEPT ![h] = "tmp_written"]
  /\ clean' = Disturb(h)
  /\ UNCHANGED <<proc_exe, constants, minted, cipher, build, handle, buffer, arg, last, updates, start, committed>>

\* fs::set_permissions(&temp_path, fs::metadata(path)?.permissions())
CopyPermissions(h) ==
  /\ pc[h] = "tmp_written"
  /\ IF fs[with_extension(EXE_PATH)].exists
     THEN /\ fs' = SetPermissions(fs, with_extension(EXE_PATH), EXE_PATH)
          /\ pc' = [pc EXCEPT ![h] = "perms_copied"]
          /\ clean' = Disturb(h)
          /\ UNCHANGED <<fd, last, buffer, arg, start>>
     ELSE /\ Fail(h, "Io")
          /\ UNCHANGED <<fs, clean>>
  /\ UNCHANGED <<proc_exe, constants, minted, cipher, build, handle, updates, committed>>

\* fs::rename(&temp_path, path)
Rename(h) ==
  /\ pc[h] = "perms_copied"
  /\ IF fs[with_extension(EXE_PATH)].exists
     THEN /\ fs' = RenameFile(fs, with_extension(EXE_PATH), EXE_PATH)
          /\ fd' = [q \in Handles |->
                      Relink(fd[q], with_extension(EXE_PATH), EXE_PATH)]
          /\ pc' = [pc EXCEPT ![h] = "renamed"]
          /\ clean' = Disturb(h)
          /\ UNCHANGED <<last, buffer, arg, start>>
     ELSE /\ Fail(h, "Io")
          /\ UNCHANGED <<fs, clean>>
  /\ UNCHANGED <<proc_exe, constants, minted, cipher, build, handle, updates, committed>>

\* Ok(()) of an update_bytes that takes the persisted record into the handle
ReturnRefreshed(h) ==
  /\ pc[h] = "renamed"
  /\ pc' = [pc EXCEPT ![h] = "idle"]
  /\ last' = [NoCall EXCEPT !.handle = h, !.op = "update",
                            !.new_key = arg[h],
                            !.untouched = (fs[EXE_PATH].data = start[h]),
                            !.fresh = Uninitialized(start[h]),
                            !.clean = clean[h]]
  /\ buffer' = [buffer EXCEPT ![h] = EmptyFile]
  /\ arg' = [arg EXCEPT ![h] = <<>>]
  /\ start' = [start EXCEPT ![h] = EmptyFile]
  /\ handle' = IF read_metadata(fs[EXE_PATH].data).status = "Ok"
               THEN [handle EXCEPT ![h] = read_metadata(fs[EXE_PATH].data).value]
               ELSE handle
  /\ UNCHANGED <<proc_exe, constants, minted, cipher, build, fs, fd, updates, clean, committed>>

\* Ok(())
Return(h) ==
  /\ pc[h] = "renamed"
  /\ pc' = [pc EXCEPT ![h] = "idle"]
  /\ last' = [NoCall EXCEPT !.handle = h, !.op = "update",
                            !.new_key = arg[h],
                            !.untouched = (fs[EXE_PATH].data = start[h]),
                            !.fresh = Uninitialized(start[h]),
                            !.clean = clean[h]]
  /\ buffer' = [buffer EXCEPT ![h] = EmptyFile]
  /\ arg' = [arg EXCEPT ![h] = <<>>]
  /\ start' = [start EXCEPT ![h] = EmptyFile]
  /\ UNCHANGED <<proc_exe, constants, minted, cipher, build, fs, handle, fd, updates, clean, committed>>

\* the file operation h is about to make fails: the `?` returns the error
IoError(h) ==
  /\ pc[h] \in {"computed", "tmp_open", "tmp_written", "perms_copied"}
  /\ Fail(h, "Io")
  /\ UNCHANGED <<proc_exe, constants, minted, cipher, build, fs, handle, updates, clean, committed>>

\* the process inside update_bytes is killed
Kill(h) ==
  /\ pc[h] \in InFlight
  /\ pc' = [pc EXCEPT ![h] = "killed"]
  /\ fd' = [fd EXCEPT ![h] = "none"]
  /\ UNCHANGED <<proc_exe, constants, minted, cipher, build, fs, handle, buffer, arg, last, updates, start, clean, committed>>

InitSteps == InitWith({1}, {FreshImage(ORIGINAL_TEXT), BrokenImage(ORIGINAL_TEXT)})

NextSteps ==
  \/ \E h \in Handles : Open(h)
  \/ \E h \in Handles : ReadBytes(h)
  \/ \E h \in Handles : UpdateBytes(h)
  \/ \E h \in Handles : TmpOpen(h)
  \/ \E h \in Handles : TmpWrite(h)
  \/ \E h \in Handles : CopyPermissions(h)
  \/ \E h \in Handles : Rename(h)
  \/ \E h \in Handles : Return(h)
  \/ \E h \in Handles : IoError(h)
  \/ \E h \in Handles : Kill(h)

SpecSteps == InitSteps /\ [][NextSteps]_vars

\* ------------------------------------------- the functions of crypto.rs
\* the buffer of len bytes: every byte value occurs in the long one
Plain(len) == [k \in 1..len |-> (64 + k) % 256]

\* the keys: one byte, and two bytes so that the key cycles over a buffer
KeyChoices == {<<7>>, <<200, 13>>}
SeedChoices == {0, 1, 128, 255}

\* the calls of encrypt_shard: the empty buffer, one byte, a buffer longer
\* than the key, and one buffer longer than 256 bytes
ShardChoices ==
  {[data |-> Plain(len), key |-> k, seed |-> s] :
     len \in {0, 1, 3}, k \in KeyChoices, s \in SeedChoices}
  \cup {[data |-> Plain(LONG_LEN), key |-> <<200, 13>>, seed |-> 255]}

\* everything but build and cipher
program == <<fs, handle, pc, buffer, arg, fd, last, updates, start, clean, committed>>

\* encrypt_shard(data, derive_key, seed)
EncryptShard ==
  /\ cipher.op = "none"
  /\ \E c \in ShardChoices :
       cipher' = [NoCipher EXCEPT !.op = "encrypted", !.data = c.data,
                                  !.key = c.key, !.seed = c.seed,
                                  !.out = encrypt_shard(c.data, c.key, c.seed)]
  /\ UNCHANGED <<proc_exe, constants, minted, build, program>>

\* decrypt_shard of what encrypt_shard returned, with its key and seed
DecryptShard ==
  /\ cipher.op = "encrypted"
  /\ cipher' = [cipher EXCEPT !.op = "decrypted",
                              !.back = decrypt_shard(cipher.out, cipher.key, cipher.seed)]
  /\ UNCHANGED <<proc_exe, constants, minted, build, program>>

\* encrypt_shard of the same data with the same key under another seed
EncryptAgain ==
  /\ cipher.op = "encrypted"
  /\ Len(cipher.data) < LONG_LEN
  /\ \E seed \in SeedChoices \ {cipher.seed} :
       cipher' = [cipher EXCEPT !.op = "encrypted again", !.seed2 = seed,
                                !.out2 = encrypt_shard(cipher.data, cipher.key, seed)]
  /\ UNCHANGED <<proc_exe, constants, minted, build, program>>

\* obfuscate(data, seed)
Obfuscate ==
  /\ cipher.op = "none"
  /\ \E c \in {d \in ShardChoices : d.key = <<200, 13>>} :
       cipher' = [NoCipher EXCEPT !.op = "obfuscated", !.data = c.data,
                                  !.seed = c.seed,
                                  !.out = obfuscate(c.data, c.seed)]
  /\ UNCHANGED <<proc_exe, constants, minted, build, program>>

\* deobfuscate of what obfuscate returned, with its seed
Deobfuscate ==
  /\ cipher.op = "obfuscated"
  /\ cipher' = [cipher EXCEPT !.op = "deobfuscated",
                              !.back = deobfuscate(cipher.out, cipher.seed)]
  /\ UNCHANGED <<proc_exe, constants, minted, build, program>>

\* mod_inverse(a) for a byte a: seed holds a, t the corrected coefficient
\* before the cast, out the byte returned
ModInverse ==
  /\ cipher.op = "none"
  /\ \E a \in 0..255 :
       cipher' = [NoCipher EXCEPT !.op = "inverted", !.seed = a,
                                  !.t = Corrected(ModInverseLoop(0, 1, 256, a)),
                                  !.out = <<mod_inverse(a)>>]
  /\ UNCHANGED <<proc_exe, constants, minted, build, program>>

InitCrypto == InitWith(Builds \cup GeneratedBuilds, {FreshImage(ORIGINAL_TEXT)})

NextCrypto ==
  \/ EncryptShard
  \/ DecryptShard
  \/ EncryptAgain
  \/ Obfuscate
  \/ Deobfuscate
  \/ ModInverse

SpecCrypto == InitCrypto /\ [][NextCrypto]_vars

\* ------------------------------------------ open() on any kind of binary
\* the fresh image with bytes put into .key_meta after the length prefix
ImageWithMeta(bytes) == Splice(FreshImage(ORIGINAL_TEXT), METADATA_SECTION, LEN_PREFIX, bytes)

\* the record whose three counts are given: num_shards, the number of sizes
\* and the number of names
RecordOf(num_shards, sizes, names) ==
  [num_shards |-> num_shards,
   shard_sizes |-> [k \in 1..sizes |-> SHARD_SIZE],
   shard_names |-> [k \in 1..names |-> SHARD_NAMES[((k - 1) % N_SLOTS) + 1]],
   version |-> VERSION]

\* binaries read_metadata fails on: no JSON in the slot, no .key_meta, a
\* slot shorter than the length prefix, a file that is no ELF image, and
\* four kinds of malformed JSON (cut short, no closing brace, the braces
\* the wrong way round, a number where a name belongs)
UnreadableImages ==
  {FreshImage(ORIGINAL_TEXT),
   [elf |-> TRUE,
    sec |-> [n \in DOMAIN FreshImage(ORIGINAL_TEXT).sec \ {METADATA_SECTION} |->
               FreshImage(ORIGINAL_TEXT).sec[n]]],
   [FreshImage(ORIGINAL_TEXT) EXCEPT !.sec[METADATA_SECTION] = Zeros(LEN_PREFIX - 3)],
   [FreshImage(ORIGINAL_TEXT) EXCEPT !.elf = FALSE],
   ImageWithMeta(<<LBRACE, 4, RBRACE>>),
   ImageWithMeta(<<LBRACE, 4, LBRACKET, SHARD_SIZE, RBRACKET>>),
   ImageWithMeta(<<RBRACE, 4, LBRACE>>),
   ImageWithMeta(<<LBRACE, 1, LBRACKET, SHARD_SIZE, RBRACKET, LBRACKET, 7, RBRACKET,
                   VERSION, RBRACE>>)}

\* binaries whose slot holds a record that parses: a valid one of four
\* shards, and records validate() refuses (no shard, nine shards, a size
\* missing, a name missing)
RecordImages ==
  {ImageWithMeta(to_bytes(r)) :
     r \in {RecordOf(4, 4, 4), RecordOf(0, 0, 0), RecordOf(MAX_SHARDS + 1, 9, 9),
            RecordOf(5, 4, 5), RecordOf(5, 5, 4)}}

InitOpen == InitWith(Builds, UnreadableImages \cup RecordImages)

SpecOpen == InitOpen /\ [][\E h \in Handles : Open(h)]_vars

\* ------------------------------------- one process from exec to its end
\* env::current_exe(): the target of /proc/self/exe, which names the path the
\* executed file is linked at and, once that file is unlinked, the path it
\* had with " (deleted)" after it
current_exe == IF proc_exe = "unlinked" THEN "exe (deleted)" ELSE proc_exe

\* KeyStore::new at any time in the life of the process
Reopen(h) == OpenAt(h, current_exe)

\* update_bytes in the process: the rename takes the path away from the file
\* the process executes
UpdateHere(h) ==
  /\ UpdateWhole(h)
  /\ proc_exe' = IF last'.status = "Ok"
                 THEN Relink(proc_exe, with_extension(EXE_PATH), EXE_PATH)
                 ELSE proc_exe

\* the process ends and the binary is invoked again: no handle is left, the
\* new process executes the file at the executable path
Exec ==
  /\ \A h \in Handles : pc[h] = "idle"
  /\ handle["h1"] # NoMetadata
  /\ handle' = [h \in Handles |-> NoMetadata]
  /\ proc_exe' = EXE_PATH
  /\ committed' = IF committed.by = "none" THEN committed
                  ELSE [committed EXCEPT !.by = "gone"]
  /\ last' = [NoCall EXCEPT !.op = "exec"]
  /\ UNCHANGED <<constants, minted, cipher, build, fs, pc, buffer, arg, fd, updates, start, clean>>

NextProcess ==
  \/ \E h \in Handles : Reopen(h)
  \/ \E h \in Handles : ReadBytes(h)
  \/ \E h \in Handles : UpdateHere(h)
  \/ Exec

SpecProcess == InitWith({1}, {FreshImage(ORIGINAL_TEXT)}) /\ [][NextProcess]_vars

\* ------------------------------------------------- build.rs at build time
\* generate_crypto_constants: the constants of one seed
GenerateConstants ==
  /\ constants.op = "none"
  /\ \E seed \in SeedChoices64 :
       constants' = [op |-> "generated", seed |-> seed,
                     value |-> CryptoConstants_generate(seed)]
  /\ UNCHANGED <<proc_exe, minted, cipher, build, program>>

SpecBuild == InitWith({1}, {FreshImage(ORIGINAL_TEXT)}) /\ [][GenerateConstants]_vars

\* ----------------------------------------- the functions of metadata.rs
\* KeyMetadata::generate()
Generate ==
  /\ minted.op = "none"
  /\ \E num_shards \in GenRange, picks \in PickChoices :
       minted' = [NoRecord EXCEPT !.op = "generated", !.picks = picks,
                                  !.record = generate(num_shards, shuffle(picks))]
  /\ UNCHANGED <<proc_exe, constants, cipher, build, program>>

\* what surrounds the JSON in a slot: a prefix without '{' and a suffix
\* without '}': nothing, zero padding, the other brace, brackets
PaddingChoices ==
  {<<<<>>, <<>>>>,
   <<Zeros(3), Zeros(4)>>,
   <<<<RBRACE, 0>>, <<0, LBRACE>>>>,
   <<<<RBRACE, LBRACKET, RBRACE>>, <<RBRACKET, LBRACE, LBRACE, 0>>>>}

\* the lengths the prefix of .key_meta is set to: their low bytes are 0, '{'
\* and '}'
PrefixChoices == {0, 123, 125, 123 * 256 + 125}

\* to_bytes() of the generated record, laid between a prefix and a suffix
ToBytes ==
  /\ minted.op = "generated"
  /\ \E pad \in PaddingChoices :
       minted' = [minted EXCEPT !.op = "serialized",
                                !.bytes = pad[1] \o to_bytes(minted.record) \o pad[2]]
  /\ UNCHANGED <<proc_exe, constants, cipher, build, program>>

\* KeyMetadata::from_bytes of those bytes
FromBytes ==
  /\ minted.op = "serialized"
  /\ minted' = [minted EXCEPT !.op = "parsed", !.parsed = from_bytes(minted.bytes)]
  /\ UNCHANGED <<proc_exe, constants, cipher, build, program>>

\* what update_bytes writes into .key_meta of a fresh image: the record by
\* write_metadata_to_binary, then a length prefix
WriteMetadata ==
  /\ minted.op = "generated"
  /\ \E len \in PrefixChoices :
       LET written == write_metadata_to_binary(minted.record, FreshImage(ORIGINAL_TEXT))
       IN /\ written.status = "Ok"
          /\ minted' = [minted EXCEPT
                          !.op = "written",
                          !.image = Splice(written.image, METADATA_SECTION, 0,
                                           to_le_bytes(len))]
  /\ UNCHANGED <<proc_exe, constants, cipher, build, program>>

\* KeyStore::read_metadata of that image
ReadMetadata ==
  /\ minted.op = "written"
  /\ minted' = [minted EXCEPT !.op = "read", !.parsed = read_metadata(minted.image)]
  /\ UNCHANGED <<proc_exe, constants, cipher, build, program>>

InitMetadata == InitWith({1}, {FreshImage(ORIGINAL_TEXT)})

NextMetadata ==
  \/ Generate
  \/ ToBytes
  \/ FromBytes
  \/ WriteMetadata
  \/ ReadMetadata

SpecMetadata == InitMetadata /\ [][NextMetadata]_vars

\* ------------------------------------------------------------- properties
\* the capacity() of handle h
capacity(h) == total_capacity(handle[h])

\* the last call was a read_bytes by the handle whose update_bytes stored the
\* image on disk
ReadOwnUpdate ==
  /\ last.op = "read"
  /\ committed.by = last.handle

\* C1: a successful update_bytes(secret) followed by read_bytes() on the same
\* handle, the code section being what it was, returns exactly secret: for
\* every handle open() returned, the one that holds a record other than the
\* persisted one included, and every secret from the empty one to one of
\* capacity() bytes.
C1_RoundTrip ==
  (ReadOwnUpdate /\ KeyNow(fs[EXE_PATH].data) = committed.derive)
    => (last.status = "Ok" /\ last.data = committed.key)

\* a secret of exactly capacity() bytes was stored and read back
C1_Witness ==
  /\ ReadOwnUpdate
  /\ KeyNow(fs[EXE_PATH].data) = committed.derive
  /\ Len(committed.key) = capacity(last.handle)
  /\ last.status = "Ok"
  /\ last.data = committed.key

\* C2: update_bytes(secret) with |secret| > capacity() returns a Config error
\* and leaves the file at the executable path as it was; on a fresh binary
\* .key_meta stays without a metadata record.
C2_CapacityEnforced ==
  (last.op = "update" /\ Len(last.new_key) > capacity(last.handle))
    => /\ last.status = "Config"
       /\ last.untouched
       /\ last.fresh => Uninitialized(fs[EXE_PATH].data)

\* a secret of capacity() + 1 bytes was refused on a fresh binary
C2_Witness ==
  /\ last.op = "update"
  /\ Len(last.new_key) = capacity(last.handle) + 1
  /\ last.status = "Config"
  /\ last.fresh
  /\ Uninitialized(fs[EXE_PATH].data)

\* the key the code section yields differs from the key of the stored image
\* in one of its first n bytes
KeyDiffersWithin(n) ==
  \E i \in 1..Min(n, Len(committed.derive)) :
    KeyNow(fs[EXE_PATH].data)[i] # committed.derive[i]

\* the read returned as many bytes as were stored and not the stored secret
Destroyed ==
  /\ last.status = "Ok"
  /\ Len(last.data) = Len(committed.key)
  /\ last.data # committed.key

\* C5, as the spec states it: after a successful update_bytes(secret) with a
\* non-empty secret, once the code section is altered so that the derived key
\* differs, read_bytes() succeeds with |secret| bytes that are not secret.
C5_TamperDestroys ==
  (ReadOwnUpdate /\ committed.key # <<>>
     /\ KeyNow(fs[EXE_PATH].data) # committed.derive)
    => Destroyed

\* C5, amended: the same, when the derived key differs in one of its first
\* |secret| bytes.
C5_TamperDestroysWithinSecret ==
  (ReadOwnUpdate /\ committed.key # <<>>
     /\ KeyDiffersWithin(Len(committed.key)))
    => Destroyed

\* a one-byte secret was read back wrong after the first key byte changed
C5_Witness ==
  /\ ReadOwnUpdate
  /\ Len(committed.key) = 1
  /\ KeyDiffersWithin(1)
  /\ Destroyed

\* C6: on a fresh binary open() succeeds and read_bytes() returns the empty
\* buffer without error; after the first update_bytes(s) on that binary,
\* read_bytes() on the same handle returns s.
C6_FreshBinary ==
  /\ (last.op = "open" /\ last.fresh) => last.status = "Ok"
  /\ (last.op = "read" /\ last.fresh) => (last.status = "Ok" /\ last.data = <<>>)
  /\ (ReadOwnUpdate /\ committed.on_fresh
        /\ KeyNow(fs[EXE_PATH].data) = committed.derive)
       => (last.status = "Ok" /\ last.data = committed.key)

\* the first update on a fresh binary stored a secret that was then read back
C6_Witness ==
  /\ ReadOwnUpdate
  /\ committed.on_fresh
  /\ committed.key # <<>>
  /\ last.status = "Ok"
  /\ last.data = committed.key

\* C7: the capacity() of every handle open() returned is between MIN_SHARDS
\* and MAX_SHARDS shards of SHARD_SIZE bytes, a multiple of SHARD_SIZE, in
\* every reachable state.
C7_CapacityRange ==
  \A h \in Handles :
    handle[h] # NoMetadata =>
      /\ capacity(h) >= MIN_SHARDS * SHARD_SIZE
      /\ capacity(h) <= MAX_SHARDS * SHARD_SIZE
      /\ capacity(h) % SHARD_SIZE = 0
      /\ handle[h].num_shards \in MIN_SHARDS..MAX_SHARDS
      /\ capacity(h) = handle[h].num_shards * SHARD_SIZE

\* open() loaded a handle of the largest capacity from the record an
\* update_bytes persisted
C7_Witness ==
  /\ last.op = "open" /\ last.handle = "h2" /\ last.status = "Ok"
  /\ ~Uninitialized(fs[EXE_PATH].data)
  /\ handle["h2"] = read_metadata(fs[EXE_PATH].data).value
  /\ capacity("h2") = MAX_SHARDS * SHARD_SIZE

\* the reserved sections a later update may change
Writable == {METADATA_SECTION} \cup {SHARD_NAMES[k] : k \in 1..N_SLOTS}

\* C8: .key_meta gets its metadata record only by a successful update_bytes,
\* never loses it, and once it has one the bytes from offset 8 on stay as they
\* are through every later operation of any handle; an update changes only
\* the length prefix and the data slots.
C8_MetaStateMachine ==
  [][LET old == fs[EXE_PATH].data
         new == fs'[EXE_PATH].data
     IN /\ (Uninitialized(old) /\ ~Uninitialized(new))
             => (last'.op = "update" /\ last'.status = "Ok")
        /\ ~Uninitialized(old)
             => (~Uninitialized(new) /\ JsonBody(new) = JsonBody(old))
        /\ (~Uninitialized(old) /\ updates' # updates)
             => /\ new.elf = old.elf
                /\ DOMAIN new.sec = DOMAIN old.sec
                /\ \A n \in DOMAIN old.sec \ Writable : new.sec[n] = old.sec[n]]_vars

\* an update by a handle that holds another record than the persisted one
\* went through on a binary that has its record
C8_Witness ==
  /\ last.op = "update"
  /\ last.status = "Ok"
  /\ ~last.fresh
  /\ ~last.untouched
  /\ handle[last.handle] # read_metadata(fs[EXE_PATH].data).value

\* C9: once a metadata record is persisted, every later successful
\* update_bytes of any handle writes the image that update_bytes with the
\* persisted record writes: ciphertext in the data slots the persisted record
\* names, in its order.
C9_StableLayout ==
  [][(updates' # updates /\ last'.status = "Ok"
        /\ ~Uninitialized(fs[EXE_PATH].data))
       => fs'[EXE_PATH].data =
            UpdateImage(read_metadata(fs[EXE_PATH].data).value,
                        fs[EXE_PATH].data, last'.new_key).image]_vars

\* C3: whatever step of update_bytes its process has reached or was killed
\* at, with nobody else writing, the file at the executable path is the
\* complete image the call read or the complete image it built: the old one
\* up to the rename, the new one after it.
C3_CrashAtomic ==
  \A h \in Handles :
    clean[h] =>
      /\ pc[h] \in InFlight \cup {"killed"}
           => fs[EXE_PATH].data \in {start[h], buffer[h]}
      /\ pc[h] \in InFlight \ {"renamed"} => fs[EXE_PATH].data = start[h]
      /\ pc[h] = "renamed" => fs[EXE_PATH].data = buffer[h]

\* a process was killed with the new image in the temp file and the old one
\* at the executable path
C3_Witness ==
  \E h \in Handles :
    /\ pc[h] = "killed"
    /\ clean[h]
    /\ fs[with_extension(EXE_PATH)].exists
    /\ fs[with_extension(EXE_PATH)].data = buffer[h]
    /\ fs[EXE_PATH].data = start[h]
    /\ start[h] # buffer[h]

\* C4: an update_bytes that returns an error, with nobody else writing
\* meanwhile, leaves the bytes of the file at the executable path as they
\* were before the call.
C4_FailureUntouched ==
  (last.op = "update" /\ last.status # "Ok" /\ last.clean) => last.untouched

\* an update_bytes failed on an IO error after its temp file was written
C4_Witness ==
  /\ last.op = "update"
  /\ last.status = "Io"
  /\ last.clean
  /\ last.untouched
  /\ fs[with_extension(EXE_PATH)].exists
  /\ fs[with_extension(EXE_PATH)].data # EmptyFile

\* C10: a read_bytes() that runs while one update_bytes(new) of a handle with
\* the same record is inside atomic_write does not change the file and
\* returns the secret stored before that update or new, whole.
C10_ReadBesideWriter ==
  (last.op = "read" /\ last.raced)
    => /\ last.untouched
       /\ last.status = "Ok"
       /\ last.data \in {last.old, last.new_key}

\* a read beside a writer returned the new secret where another was stored
C10_Witness ==
  /\ last.op = "read"
  /\ last.raced
  /\ last.status = "Ok"
  /\ last.old # <<>>
  /\ last.old # last.new_key
  /\ last.data = last.new_key

\* the file at the executable path is a whole ELF image with every section
\* init_key_storage!() reserved
CompleteImage(file) ==
  /\ file.exists
  /\ file.data.elf
  /\ {DERIVE_SECTION, METADATA_SECTION} \subseteq DOMAIN file.data.sec

\* C11: when two update_bytes calls interleave, the file at the executable
\* path is a complete image after every step, no call fails on a file
\* operation of its own, and a rename puts the renamer's image at the
\* executable path.
C11_LastRenamerWins ==
  [][/\ CompleteImage(fs'[EXE_PATH])
     /\ \A h \in Handles :
          /\ (CopyPermissions(h) \/ Rename(h)) => pc'[h] # "idle"
          /\ (Rename(h) /\ pc'[h] = "renamed")
               => fs'[EXE_PATH].data = buffer[h]]_vars

\* C12: every step of an update_bytes nobody else writes beside leaves the
\* permission bits of the file at the executable path as they were, the
\* rename included, and before the rename the temp file has the bits of the
\* executable; a process killed at any step has taken only such steps.
C12_PermissionCarryOver ==
  [][\A h \in Handles :
       /\ (clean[h] /\ clean'[h] /\ pc[h] \in InFlight)
            => fs'[EXE_PATH].perm = fs[EXE_PATH].perm
       /\ (clean'[h] /\ pc'[h] = "perms_copied")
            => fs'[with_extension(EXE_PATH)].perm = fs'[EXE_PATH].perm]_vars

\* a temp file created without the executable bit was renamed over the
\* executable by a call nobody wrote beside, and the executable kept its bits
C12_Witness ==
  \E h \in Handles :
    /\ pc[h] = "renamed"
    /\ clean[h]
    /\ fs[EXE_PATH].data = buffer[h]
    /\ start[h] # buffer[h]
    /\ fs[EXE_PATH].perm = EXE_MODE
    /\ CREATE_MODE # EXE_MODE

\* C13: for every buffer, the empty one, one longer than the key and one
\* longer than 256 bytes included, every non-empty key and every seed,
\* encrypt_shard returns as many bytes as it was given and decrypt_shard with
\* the same key and seed returns the buffer.
C13_ShardRoundTrip ==
  /\ cipher.op \in {"encrypted", "decrypted", "encrypted again"}
       => Len(cipher.out) = Len(cipher.data)
  /\ cipher.op = "decrypted" => cipher.back = cipher.data

\* the buffer longer than 256 bytes came back through a key that cycled
C13_Witness ==
  /\ cipher.op = "decrypted"
  /\ Len(cipher.data) > 256
  /\ Len(cipher.key) < Len(cipher.data)
  /\ cipher.out # cipher.data
  /\ cipher.back = cipher.data

\* C14: whatever the build's constants (odd multiplier, base, mask, rotation
\* in 1..7, rounds in 1..3, S-box with its inverse), deobfuscate with the
\* same seed returns the buffer obfuscate was given.
C14_ObfuscateReversible ==
  cipher.op = "deobfuscated" => cipher.back = cipher.data

\* a buffer with every byte value came back under three extra rounds and a
\* multiplier other than 1
C14_Witness ==
  /\ cipher.op = "deobfuscated"
  /\ Len(cipher.data) > 256
  /\ EXTRA_ROUNDS = 3
  /\ OBFUSCATE_MULTIPLIER # 1
  /\ cipher.out # cipher.data
  /\ cipher.back = cipher.data

\* C15: for every odd byte m, mod_inverse(m) returns an odd byte v with
\* (m * v) mod 256 = 1, and the coefficient after the one correction by 256
\* is within 0..255 before the cast.
C15_ModInverse ==
  (cipher.op = "inverted" /\ cipher.seed % 2 = 1)
    => /\ cipher.t \in 0..255
       /\ cipher.out[1] = cipher.t
       /\ cipher.out[1] % 2 = 1
       /\ (cipher.seed * cipher.out[1]) % 256 = 1

\* the inverse of 255 was computed: the loop left a negative coefficient
C15_Witness ==
  /\ cipher.op = "inverted"
  /\ cipher.seed = 255
  /\ ModInverseLoop(0, 1, 256, cipher.seed) < 0
  /\ cipher.out = <<255>>

C17_GeneratedRecord ==
  minted.op = "generated" =>
    LET m == minted.record
    IN /\ m.num_shards \in 4..8
       /\ Len(m.shard_sizes) = m.num_shards
       /\ Len(m.shard_names) = m.num_shards
       /\ \A k \in 1..Len(m.shard_sizes) : m.shard_sizes[k] = SHARD_SIZE
       /\ \A j, k \in 1..Len(m.shard_names) :
            j # k => m.shard_names[j] # m.shard_names[k]
       /\ \A k \in 1..Len(m.shard_names) :
            \E n \in 1..N_SLOTS : m.shard_names[k] = SHARD_NAMES[n]
       /\ m.version = 1
       /\ validate(m) = "Ok"

\* a record of eight shards whose names are in another order than the
\* canonical one was generated
C17_Witness ==
  /\ minted.op = "generated"
  /\ minted.record.num_shards = 8
  /\ minted.record.shard_names # SHARD_NAMES
  /\ minted.record.shard_names[1] = SHARD_NAMES[4]

\* the little-endian u64 in the first 8 bytes of .key_meta
StoredLength(image) ==
  from_le_bytes(SubSeq(image.sec[METADATA_SECTION], 1, LEN_PREFIX))

\* C18: a read_bytes() that succeeds returns exactly L bytes, L being the
\* little-endian u64 in the first 8 bytes of .key_meta on disk; with L above
\* the capacity of the calling handle it fails with a Config error, and with
\* L = 0 it returns the empty buffer.
C18_ReadLength ==
  (last.op = "read"
     /\ find_section(fs[EXE_PATH].data, METADATA_SECTION).status = "Ok")
    => LET L == StoredLength(fs[EXE_PATH].data)
       IN /\ last.status = "Ok" => Len(last.data) = L
          /\ L > capacity(last.handle) => last.status = "Config"
          /\ L = 0 => (last.status = "Ok" /\ last.data = <<>>)

\* a handle of four shards read a binary that stores more bytes than its
\* capacity and got the Config error
C18_Witness ==
  /\ last.op = "read"
  /\ StoredLength(fs[EXE_PATH].data) > capacity(last.handle)
  /\ StoredLength(fs[EXE_PATH].data) <= MAX_SHARDS * SHARD_SIZE
  /\ last.status = "Config"

\* the data slots the record names
SlotsOf(metadata) == {metadata.shard_names[k] : k \in 1..Len(metadata.shard_names)}

\* C19: a successful update_bytes changes, in the image on disk, only bytes
\* of .key_meta (the 8 bytes of the length prefix, and the JSON body when the
\* binary had no record) and of the data slots the handle's record names;
\* .text, every other data slot, the set of sections and the length of each
\* section stay as they were, and so does the key derived from .text.
C19_UpdateFrame ==
  [][(updates' # updates /\ last'.status = "Ok")
       => LET old == fs[EXE_PATH].data
              new == fs'[EXE_PATH].data
              record == handle[last'.handle]
              json == to_bytes(record)
          IN /\ new.elf = old.elf
             /\ DOMAIN new.sec = DOMAIN old.sec
             /\ \A n \in DOMAIN old.sec : Len(new.sec[n]) = Len(old.sec[n])
             /\ \A n \in DOMAIN old.sec \ (SlotsOf(record) \cup {METADATA_SECTION}) :
                  new.sec[n] = old.sec[n]
             /\ new.sec[DERIVE_SECTION] = old.sec[DERIVE_SECTION]
             /\ KeyNow(new) = KeyNow(old)
             /\ ~Uninitialized(old) => JsonBody(new) = JsonBody(old)
             /\ Uninitialized(old)
                  => \A k \in (LEN_PREFIX + Len(json) + 1)..Len(old.sec[METADATA_SECTION]) :
                       new.sec[METADATA_SECTION][k] = old.sec[METADATA_SECTION][k]]_vars

\* an update of a handle of five shards changed data slots and left the
\* slots its record does not name, which hold another handle's ciphertext
C19_Witness ==
  /\ last.op = "update"
  /\ last.status = "Ok"
  /\ ~last.fresh
  /\ ~last.untouched
  /\ handle[last.handle].num_shards = 5
  /\ \E n \in DOMAIN fs[EXE_PATH].data.sec \ (SlotsOf(handle[last.handle])
                                                \cup {METADATA_SECTION, DERIVE_SECTION}) :
       fs[EXE_PATH].data.sec[n] # Zeros(SHARD_SIZE)

\* every shard of the record decrypted in the order of shard_names
DecryptAll(metadata, image) ==
  DecryptShards(metadata, image, 0, total_capacity(metadata), <<>>).data

\* C20: after a successful update_bytes(secret) the slots of the handle's
\* record, decrypted in the order of shard_names, hold secret followed by
\* zero bytes up to the capacity: nothing of an earlier, longer secret is
\* left in them.
C20_NoStalePlaintext ==
  (last.op = "update" /\ last.status = "Ok")
    => DecryptAll(handle[last.handle], fs[EXE_PATH].data)
         = last.new_key \o Zeros(capacity(last.handle) - Len(last.new_key))

\* a secret of one byte was stored over one of capacity() bytes
C20_Witness ==
  /\ last.op = "update"
  /\ last.status = "Ok"
  /\ Len(last.old) = capacity(last.handle)
  /\ Len(last.new_key) = 1
  /\ DecryptAll(handle[last.handle], fs[EXE_PATH].data)
       = last.new_key \o Zeros(capacity(last.handle) - 1)

\* C21: for every record generate() returns, from_bytes of its to_bytes laid
\* between a prefix without '{' and a suffix without '}' returns a record
\* with the same num_shards, shard_sizes, shard_names and version; and
\* read_metadata of an image update_bytes wrote returns the record it
\* persisted, whatever the length prefix holds.
C21_ParseRoundTrip ==
  minted.op \in {"parsed", "read"} =>
    /\ minted.parsed.status = "Ok"
    /\ minted.parsed.value.num_shards = minted.record.num_shards
    /\ minted.parsed.value.shard_sizes = minted.record.shard_sizes
    /\ minted.parsed.value.shard_names = minted.record.shard_names
    /\ minted.parsed.value.version = minted.record.version

\* a record of five shards was parsed back from between a prefix that holds
\* a '}' and a suffix that holds a '{'
C21_Witness ==
  /\ minted.op = "parsed"
  /\ minted.record.num_shards = 5
  /\ Len(minted.bytes) > Len(to_bytes(minted.record))
  /\ minted.bytes[1] = RBRACE
  /\ minted.bytes[Len(minted.bytes) - 1] = LBRACE
  /\ minted.parsed.value = minted.record

\* the records generate() can return in the model
Generated == {generate(d[1], d[2]) : d \in Draws}

\* what validate() refuses
Invalid(m) ==
  \/ m.num_shards = 0
  \/ m.num_shards > 8
  \/ Len(m.shard_sizes) # m.num_shards
  \/ Len(m.shard_names) # m.num_shards

\* C22: when read_metadata fails for whatever reason, open() succeeds,
\* holds a freshly generated record and leaves the file as it is; when the
\* slot holds a record that parses and fails validate(), open() returns a
\* Config error and no handle.
C22_OpenFallback ==
  [][(last'.op = "open" /\ (last' # last \/ handle' # handle))
       => LET persisted == read_metadata(fs[EXE_PATH].data)
              h == last'.handle
          IN /\ fs' = fs
             /\ persisted.status # "Ok"
                  => /\ last'.status = "Ok"
                     /\ handle'[h] \in Generated
             /\ (persisted.status = "Ok" /\ Invalid(persisted.value))
                  => /\ last'.status = "Config"
                     /\ handle'[h] = NoMetadata
                     /\ handle' = handle]_vars

\* open() refused a slot whose record names nine shards
C22_Witness ==
  /\ last.op = "open"
  /\ last.status = "Config"
  /\ read_metadata(fs[EXE_PATH].data).status = "Ok"
  /\ read_metadata(fs[EXE_PATH].data).value.num_shards = 9
  /\ handle[last.handle] = NoMetadata

\* C23: whatever the seed, the generated multiplier is odd, the rotation is
\* between 1 and 7, the number of rounds between 1 and 3, the S-box is a
\* permutation of 0..255 and the inverse table undoes it.
C23_ConstantsValid ==
  constants.op = "generated" =>
    LET c == constants.value
    IN /\ c.obfuscate_multiplier % 2 = 1
       /\ c.obfuscate_multiplier \in 0..255
       /\ c.rotation_bits \in 1..7
       /\ c.extra_rounds \in 1..3
       /\ {c.obfuscate_table[i] : i \in 0..255} = 0..255
       /\ \A i \in 0..255 : c.deobfuscate_table[c.obfuscate_table[i]] = i

\* a seed whose draws gave 7 bits of rotation, 3 rounds and an S-box that
\* moves 0 and 255
C23_Witness ==
  /\ constants.op = "generated"
  /\ constants.value.rotation_bits = 7
  /\ constants.value.extra_rounds = 3
  /\ constants.value.obfuscate_table[0] # 0
  /\ constants.value.obfuscate_table[255] # 255

\* C24: after a successful update_bytes(secret) of any handle, with no later
\* update and the code section as it was, read_bytes() of every handle
\* returns secret; and while .key_meta holds a record, the record every
\* handle holds is that record.
C24_ReadAfterWrite ==
  /\ (last.op = "read" /\ committed.by # "none"
        /\ KeyNow(fs[EXE_PATH].data) = committed.derive)
       => (last.status = "Ok" /\ last.data = committed.key)
  /\ ~Uninitialized(fs[EXE_PATH].data)
       => \A h \in Handles :
            handle[h] # NoMetadata => handle[h] = read_metadata(fs[EXE_PATH].data).value

\* C25: in a process whose own update_bytes has replaced the file at the
\* executable path, a later open() succeeds and holds the persisted record;
\* and a new invocation of the binary reads the secret that update stored.
C25_ReopenAfterUpdate ==
  /\ (last.op = "open" /\ committed.by \in Handles)
       => /\ last.status = "Ok"
          /\ handle[last.handle] = read_metadata(fs[EXE_PATH].data).value
  /\ (last.op = "read" /\ committed.by = "gone")
       => (last.status = "Ok" /\ last.data = committed.key)

\* C26: what a handle holds is fixed when open() returns it: no step of any
\* call changes its record, so its capacity() stays what it was; between
\* calls nothing of the secret or of the image is kept for it; and a step
\* of read_bytes() or open() leaves every file as it is.
C26_HandleFixed ==
  [][/\ \A h \in Handles :
          handle[h] # NoMetadata
            => /\ handle'[h] = handle[h]
               /\ total_capacity(handle'[h]) = total_capacity(handle[h])
     /\ \A h \in Handles :
          pc'[h] = "idle" => (arg'[h] = <<>> /\ buffer'[h] = EmptyFile)
     /\ (last' # last /\ last'.op \in {"open", "read"}) => fs' = fs]_vars

\* an update_bytes returned Ok to a handle whose record and capacity are not
\* the persisted ones, and the handle still holds them
C26_Witness ==
  /\ last.op = "update"
  /\ last.status = "Ok"
  /\ pc[last.handle] = "idle"
  /\ arg[last.handle] = <<>>
  /\ ~Uninitialized(fs[EXE_PATH].data)
  /\ capacity(last.handle) # total_capacity(read_metadata(fs[EXE_PATH].data).value)

====
